---- MODULE Spec2Model ----
(***************************************************************************)
(* Model of organizer_gui.py: the background process runner, the relay     *)
(* queue, the polling drain loop, the completion callbacks, the input      *)
(* validation of the two pipelines, the live log tailer, and the backups   *)
(* list with its restore handler.                                          *)
(*                                                                         *)
(* Threads: the Tk UI thread runs one handler at a time (button commands   *)
(* and `after` timers); each run starts a thread that sets up the drain    *)
(* loop and a worker thread that runs the external script.  The drain loop *)
(* takes one queue item per step, so worker puts interleave with it.       *)
(***************************************************************************)
EXTENDS Integers, Sequences, FiniteSets, TLC

\* ---------------------------------------------------------------- bounds
MaxLines == 2      \* output lines one process writes before it ends
MaxFileLen == 2    \* bytes a log file grows to
MaxTimers == 2     \* pending tail timers
MaxOverlapLines == 1   \* output lines of a process in overlapping runs

\* ------------------------------------------------------ program constants
RC_NOT_FOUND == 127
RC_FAILED == 1

\* ------------------------------------------------------------ input sets
P == {"org", "ver"}                 \* the two pipelines
ExitCodes == {0, 2}                 \* exit codes a script may return
PopenOutcomes == {"ok", "ENOENT", "EACCES"}

\* Texts of a path entry: empty, blank, an existing directory (with and without
\* surrounding blanks) and a directory that does not exist yet.
Paths == {<<>>, <<" ">>, <<"a">>, <<" ", "a", " ">>, <<"b">>}

VARIABLES
    dirs,         \* file system: the directories that exist
    btn,          \* [P -> state of run_btn / verify_btn]
    status,       \* [P -> status_var / integrity_status]
    progress,     \* [P -> whether the progress bar is running]
    text,         \* [P -> content of text_out / text_verify]
    dialog,       \* the messagebox shown by the step just taken, if any
    bgpc,         \* [P -> position of proc_thread: "idle", "started" (not yet
                  \*       run), "after" (worker started, inside self.after)]
    q,            \* [P -> relay queue of the current invocation]
    wpc,          \* [P -> position of the worker thread]
    rc,           \* [P -> return value of run_process held by the worker]
    nread,        \* [P -> lines read from the process so far]
    pollPending,  \* [P -> number of pending after(100, poll) timers]
    uiBusy,       \* which drain loop occupies the UI thread, or "none"
    popen,        \* [P -> outcome of subprocess.Popen in this invocation]
    enq,          \* [P -> every item put on the queue in this invocation]
    inserted,     \* [P -> every text inserted by the drain loop in this invocation]
    taken,        \* [P -> every item the drain loop took in this invocation]
    cbCount,      \* [P -> calls of the completion callback in this invocation]
    cbArg,        \* [P -> the return code passed to the callback]
    readfail      \* [P -> whether reading the output raised in this invocation]

widgets == <<btn, status, progress, text>>
workerv == <<q, wpc, rc, nread, popen, enq, readfail>>
drainv == <<pollPending, uiBusy, inserted, taken, cbCount, cbArg>>
pvars == <<dirs, bgpc, widgets, workerv, drainv>>

\* ------------------------------------------------------------- strings
\* str.strip() on a path: drop leading and trailing blanks.
RECURSIVE LStrip(_)
LStrip(s) == IF s # <<>> /\ Head(s) = " " THEN LStrip(Tail(s)) ELSE s

RECURSIVE RStrip(_)
RStrip(s) == IF s # <<>> /\ s[Len(s)] = " " THEN RStrip(SubSeq(s, 1, Len(s) - 1)) ELSE s

Strip(s) == RStrip(LStrip(s))

\* str(int) as used by an f-string: the decimal digits, with a sign.
Digit(d) == CASE d = 0 -> "0" [] d = 1 -> "1" [] d = 2 -> "2" [] d = 3 -> "3"
              [] d = 4 -> "4" [] d = 5 -> "5" [] d = 6 -> "6" [] d = 7 -> "7"
              [] d = 8 -> "8" [] d = 9 -> "9"

RECURSIVE StrNat(_)
StrNat(n) == IF n < 10 THEN <<Digit(n)>> ELSE StrNat(n \div 10) \o <<Digit(n % 10)>>

Str(n) == IF n < 0 THEN <<"-">> \o StrNat(-n) ELSE StrNat(n)

\* ------------------------------------------------------------ queue items
\* An item is a text chunk (a sequence of tokens), None, or ("__RC__", rc).
Chunk(s) == [tag |-> "str", str |-> s, code |-> 0]
NoneItem == [tag |-> "None", str |-> <<>>, code |-> 0]
RcItem(c) == [tag |-> "__RC__", str |-> <<>>, code |-> c]

ScriptName(p) == IF p = "org" THEN "organize_files.sh" ELSE "verify_integrity.sh"

\* f"[ERROR] Script not found: {cmd_list[0]}\n{e}\n"
DiagNotFound(p) == <<"[ERROR] Script not found: ", ScriptName(p), "\n", "FileNotFoundError", "\n">>
\* f"[ERROR] Running command failed: {e}\n"
DiagFailed == <<"[ERROR] Running command failed: ", "Exception", "\n">>

NoDialog == [kind |-> "none", title |-> "", msg |-> <<>>]
Dialog(k, t, m) == [kind |-> k, title |-> t, msg |-> m]

\* ------------------------------------------------------ tailer state
LogNames == {"organizer.log", "integrity_check.log"}
NoFile == <<"ENOENT">>

VARIABLES
    log_dir,      \* log_dir_var after strip: "" or the chosen directory
    files,        \* file system: [LogNames -> content, or NoFile]
    running,      \* _live_logs_running
    live_paths,   \* _live_log_paths
    tail_pos,     \* _tail_positions: [path -> offset]
    text_logs,    \* content of the log view
    tailPending,  \* number of pending after(LOG_POLL_MS, _do_tail) timers
    logs_inserted \* every text inserted into the log view since the last start

tvars == <<log_dir, files, running, live_paths, tail_pos, text_logs, tailPending,
           logs_inserted>>

\* ------------------------------------------------------ backups state
VARIABLES
    back_dir,     \* back_dir_var: the text of the directory entry
    backups,      \* file system: [root -> NoDir, or the names in root/backups]
    backups_list, \* the items of the backups Listbox, top first
    cursel,       \* backups_list.curselection(): 0 for none, else the index
    dest,         \* the restore destination: the last archive written into it
    rpc,          \* where restore_selected_backup waits: "idle", or inside the
                  \* modal "askdirectory" or "askyesno" dialog
    rpath,        \* its locals d and name (backup_path), while it waits
    rdest         \* its local dest, while it waits in askyesno

rvars == <<rpc, rpath, rdest>>
bvars == <<back_dir, backups, backups_list, cursel, dest, rvars>>

vars == <<dialog, pvars, tvars, bvars>>

\* ------------------------------------------------------------ helpers
Set(f, p, v) == [f EXCEPT ![p] = v]

RECURSIVE Flatten(_)
Flatten(ss) == IF ss = <<>> THEN <<>> ELSE Head(ss) \o Flatten(Tail(ss))

\* The text chunks among a sequence of queue items, in order.
RECURSIVE Chunks(_)
Chunks(items) ==
    IF items = <<>> THEN <<>>
    ELSE IF Head(items).tag = "str" THEN <<Head(items).str>> \o Chunks(Tail(items))
    ELSE Chunks(Tail(items))

RECURSIVE CountRc(_)
CountRc(items) ==
    IF items = <<>> THEN 0
    ELSE (IF Head(items).tag = "__RC__" THEN 1 ELSE 0) + CountRc(Tail(items))

\* Mutant of Put: both pipelines relay through one queue, the organizer's.
PutShared(p, item) ==
    /\ q' = Set(q, "org", Append(q["org"], item))
    /\ enq' = Set(enq, p, Append(enq[p], item))

\* queue.Queue.put: append at the tail (the queue is unbounded, put never blocks).
Put(p, item) ==
    /\ q' = Set(q, p, Append(q[p], item))
    /\ enq' = Set(enq, p, Append(enq[p], item))

\* ------------------------------------------------------------ initial state
PInit ==
    /\ dirs = {<<"a">>}
    /\ btn = [p \in P |-> "normal"]
    /\ status = [p \in P |-> "Idle"]
    /\ progress = [p \in P |-> FALSE]
    /\ text = [p \in P |-> <<>>]
    /\ dialog = NoDialog
    /\ bgpc = [p \in P |-> "idle"]
    /\ q = [p \in P |-> <<>>]
    /\ wpc = [p \in P |-> "idle"]
    /\ rc = [p \in P |-> 0]
    /\ nread = [p \in P |-> 0]
    /\ pollPending = [p \in P |-> 0]
    /\ uiBusy = "none"
    /\ popen = [p \in P |-> "none"]
    /\ enq = [p \in P |-> <<>>]
    /\ inserted = [p \in P |-> <<>>]
    /\ taken = [p \in P |-> <<>>]
    /\ cbCount = [p \in P |-> 0]
    /\ cbArg = [p \in P |-> 0]
    /\ readfail = [p \in P |-> FALSE]

TIdle ==
    /\ log_dir = <<>>
    /\ files = [f \in LogNames |-> NoFile]
    /\ running = FALSE
    /\ live_paths = <<>>
    /\ tail_pos = <<>>
    /\ text_logs = <<>>
    /\ tailPending = 0
    /\ logs_inserted = <<>>

\* ------------------------------------------------- validation and start
\* Mutant of StartRun: the Run button is left enabled.
StartRunKeepsEnabled(p, st) ==
    /\ btn' = btn
    /\ status' = Set(status, p, st)
    /\ progress' = Set(progress, p, TRUE)
    /\ text' = Set(text, p, <<>>)
    /\ bgpc' = Set(bgpc, p, "started")
    /\ dialog' = NoDialog

\* The part of a run handler after validation: disable the button, set the
\* status, start the progress bar, clear the display, start proc_thread.
StartRun(p, st) ==
    /\ btn' = Set(btn, p, "disabled")
    /\ status' = Set(status, p, st)
    /\ progress' = Set(progress, p, TRUE)
    /\ text' = Set(text, p, <<>>)
    /\ bgpc' = Set(bgpc, p, "started")
    /\ dialog' = NoDialog

\* A validation failure: the messagebox and the return.
Reject(kind, title, msg) ==
    /\ dialog' = Dialog(kind, title, msg)
    /\ UNCHANGED <<dirs, btn, status, progress, text, bgpc>>

\* Mutant of run_organizer: the output folder is created before the source is
\* validated.
run_organizer_makedirs_first(src_var, out_var) ==
    /\ uiBusy = "none"
    /\ rpc = "idle"
    /\ btn["org"] = "normal"
    /\ LET src == Strip(src_var)
           out == Strip(out_var)
       IN  IF src = <<>> \/ out = <<>>
           THEN Reject("warning", "Missing paths",
                       <<"Please select both source and output folders.">>)
           ELSE IF src \notin dirs
           THEN /\ dialog' = Dialog("error", "Invalid source",
                                    <<"Source folder does not exist: ">> \o src)
                /\ dirs' = dirs \cup {out}
                /\ UNCHANGED <<btn, status, progress, text, bgpc>>
           ELSE /\ dirs' = dirs \cup {out}
                /\ StartRun("org", "Running organizer...")
    /\ UNCHANGED <<workerv, drainv>>
    /\ UNCHANGED <<tvars, bvars>>

run_organizer(src_var, out_var) ==
    /\ uiBusy = "none"
    /\ rpc = "idle"
    /\ btn["org"] = "normal"
    /\ LET src == Strip(src_var)
           out == Strip(out_var)
       IN  IF src = <<>> \/ out = <<>>
           THEN Reject("warning", "Missing paths",
                       <<"Please select both source and output folders.">>)
           ELSE IF src \notin dirs
           THEN Reject("error", "Invalid source",
                       <<"Source folder does not exist: ">> \o src)
           ELSE /\ dirs' = dirs \cup {out}
                /\ StartRun("org", "Running organizer...")
    /\ UNCHANGED <<workerv, drainv>>
    /\ UNCHANGED <<tvars, bvars>>

run_integrity(verify_dir_var) ==
    /\ uiBusy = "none"
    /\ rpc = "idle"
    /\ btn["ver"] = "normal"
    /\ LET d == Strip(verify_dir_var)
       IN  IF d = <<>>
           THEN Reject("warning", "Missing path",
                       <<"Select organized directory to verify.">>)
           ELSE IF d \notin dirs
           THEN Reject("error", "Invalid directory",
                       <<"Directory does not exist: ">> \o d)
           ELSE /\ StartRun("ver", "Running integrity check...")
                /\ UNCHANGED dirs
    /\ UNCHANGED <<workerv, drainv>>
    /\ UNCHANGED <<tvars, bvars>>

\* proc_thread up to th.start(): make the invocation's queue and start the
\* worker.  The worker runs from here on, before any poll timer exists.
background_run_and_stream(p) ==
    /\ bgpc[p] = "started"
    /\ bgpc' = Set(bgpc, p, "after")
    /\ q' = Set(q, p, <<>>)
    /\ wpc' = Set(wpc, p, "popen")
    /\ rc' = Set(rc, p, 0)
    /\ nread' = Set(nread, p, 0)
    /\ popen' = Set(popen, p, "none")
    /\ readfail' = Set(readfail, p, FALSE)
    /\ enq' = Set(enq, p, <<>>)
    /\ inserted' = Set(inserted, p, <<>>)
    /\ taken' = Set(taken, p, <<>>)
    /\ cbCount' = Set(cbCount, p, 0)
    /\ dialog' = NoDialog
    /\ UNCHANGED <<dirs, widgets, pollPending, uiBusy, cbArg>>
    /\ UNCHANGED <<tvars, bvars>>

\* proc_thread's self.after(100, poll): Tk hands the call of a thread other
\* than the UI thread to the UI thread, and proc_thread waits until that
\* thread is back in its event loop; the timer exists from then on.
after_poll(p) ==
    /\ bgpc[p] = "after"
    /\ uiBusy = "none"
    /\ bgpc' = Set(bgpc, p, "idle")
    /\ pollPending' = Set(pollPending, p, pollPending[p] + 1)
    /\ dialog' = NoDialog
    /\ UNCHANGED <<dirs, widgets, workerv, uiBusy, inserted, taken, cbCount, cbArg>>
    /\ UNCHANGED <<tvars, bvars>>

\* ------------------------------------------------------------ the worker
\* Mutant of Popen: a missing script gives code 127 without the diagnostic.
PopenNoDiag(p, outcome) ==
    /\ wpc[p] = "popen"
    /\ popen' = Set(popen, p, outcome)
    /\ CASE outcome = "ok" ->
              /\ wpc' = Set(wpc, p, "stream")
              /\ UNCHANGED <<q, enq, rc>>
         [] outcome = "ENOENT" ->
              /\ rc' = Set(rc, p, RC_NOT_FOUND)
              /\ wpc' = Set(wpc, p, "sentinel")
              /\ UNCHANGED <<q, enq>>
         [] outcome = "EACCES" ->
              /\ wpc' = Set(wpc, p, "raised")
              /\ UNCHANGED <<q, enq, rc>>
    /\ dialog' = NoDialog
    /\ UNCHANGED <<dirs, bgpc, widgets, drainv, nread, readfail>>
    /\ UNCHANGED <<tvars, bvars>>

\* run_process up to the end of the Popen call.  Only FileNotFoundError is
\* caught; any other OSError (EACCES, ENOEXEC) leaves run_process and worker.
Popen(p, outcome) ==
    /\ wpc[p] = "popen"
    /\ popen' = Set(popen, p, outcome)
    /\ CASE outcome = "ok" ->
              /\ wpc' = Set(wpc, p, "stream")
              /\ UNCHANGED <<q, enq, rc>>
         [] outcome = "ENOENT" ->
              /\ Put(p, Chunk(DiagNotFound(p)))
              /\ rc' = Set(rc, p, RC_NOT_FOUND)
              /\ wpc' = Set(wpc, p, "sentinel")
         [] outcome = "EACCES" ->
              /\ wpc' = Set(wpc, p, "raised")
              /\ UNCHANGED <<q, enq, rc>>
    /\ dialog' = NoDialog
    /\ UNCHANGED <<dirs, bgpc, widgets, drainv, nread, readfail>>
    /\ UNCHANGED <<tvars, bvars>>

\* The k-th line a script prints; the lines of one run are pairwise distinct,
\* so a lost, repeated or reordered line shows in the display.
Line(p, k) == <<p, Digit(k), "\n">>

\* for line in proc.stdout: out_queue.put(line)
ReadLine(p) ==
    /\ wpc[p] = "stream"
    /\ nread[p] < MaxLines
    /\ Put(p, Chunk(Line(p, nread[p] + 1)))
    /\ nread' = Set(nread, p, nread[p] + 1)
    /\ dialog' = NoDialog
    /\ UNCHANGED <<dirs, bgpc, widgets, drainv, wpc, rc, popen, readfail>>
    /\ UNCHANGED <<tvars, bvars>>

\* End of output: close, wait, return proc.returncode.
ReadEOF(p, code) ==
    /\ wpc[p] = "stream"
    /\ rc' = Set(rc, p, code)
    /\ wpc' = Set(wpc, p, "sentinel")
    /\ dialog' = NoDialog
    /\ UNCHANGED <<dirs, bgpc, widgets, drainv, q, enq, nread, popen, readfail>>
    /\ UNCHANGED <<tvars, bvars>>

\* Mutant of ReadFail: the read error is reported with the launch sentinel.
ReadFailWrongCode(p) ==
    /\ wpc[p] = "stream"
    /\ Put(p, Chunk(DiagFailed))
    /\ rc' = Set(rc, p, RC_NOT_FOUND)
    /\ wpc' = Set(wpc, p, "sentinel")
    /\ readfail' = Set(readfail, p, TRUE)
    /\ dialog' = NoDialog
    /\ UNCHANGED <<dirs, bgpc, widgets, drainv, nread, popen>>
    /\ UNCHANGED <<tvars, bvars>>

\* An exception while reading: put the diagnostic, return 1.
ReadFail(p) ==
    /\ wpc[p] = "stream"
    /\ Put(p, Chunk(DiagFailed))
    /\ rc' = Set(rc, p, RC_FAILED)
    /\ wpc' = Set(wpc, p, "sentinel")
    /\ readfail' = Set(readfail, p, TRUE)
    /\ dialog' = NoDialog
    /\ UNCHANGED <<dirs, bgpc, widgets, drainv, nread, popen>>
    /\ UNCHANGED <<tvars, bvars>>

\* q.put(None)
PutSentinel(p) ==
    /\ wpc[p] = "sentinel"
    /\ Put(p, NoneItem)
    /\ wpc' = Set(wpc, p, "rc")
    /\ dialog' = NoDialog
    /\ UNCHANGED <<dirs, bgpc, widgets, drainv, rc, nread, popen, readfail>>
    /\ UNCHANGED <<tvars, bvars>>

\* q.put(("__RC__", rc))
PutRc(p) ==
    /\ wpc[p] = "rc"
    /\ Put(p, RcItem(rc[p]))
    /\ wpc' = Set(wpc, p, "done")
    /\ dialog' = NoDialog
    /\ UNCHANGED <<dirs, bgpc, widgets, drainv, rc, nread, popen, readfail>>
    /\ UNCHANGED <<tvars, bvars>>

\* ------------------------------------------------- completion callbacks
\* Mutant of organizer_complete: the Run button is re-enabled on success only.
organizer_complete_keeps_disabled(returncode) ==
    /\ progress' = Set(progress, "org", FALSE)
    /\ IF returncode = 0
       THEN /\ btn' = Set(btn, "org", "normal")
            /\ status' = Set(status, "org", "Organizer completed successfully")
            /\ dialog' = Dialog("info", "Done", <<"Organizer finished successfully.">>)
       ELSE /\ btn' = btn
            /\ status' = Set(status, "org", "Organizer finished with errors")
            /\ dialog' = Dialog("warning", "Completed with errors",
                                <<"Organizer returned code ">> \o Str(returncode)
                                    \o <<". Check logs.">>)

organizer_complete(returncode) ==
    /\ progress' = Set(progress, "org", FALSE)
    /\ btn' = Set(btn, "org", "normal")
    /\ IF returncode = 0
       THEN /\ status' = Set(status, "org", "Organizer completed successfully")
            /\ dialog' = Dialog("info", "Done", <<"Organizer finished successfully.">>)
       ELSE /\ status' = Set(status, "org", "Organizer finished with errors")
            /\ dialog' = Dialog("warning", "Completed with errors",
                                <<"Organizer returned code ">> \o Str(returncode)
                                    \o <<". Check logs.">>)

integrity_complete(returncode) ==
    /\ progress' = Set(progress, "ver", FALSE)
    /\ btn' = Set(btn, "ver", "normal")
    /\ IF returncode = 0
       THEN /\ status' = Set(status, "ver", "Integrity OK")
            /\ dialog' = Dialog("info", "Integrity", <<"All files match their checksums.">>)
       ELSE /\ status' = Set(status, "ver", "Integrity FAILED")
            /\ dialog' = Dialog("warning", "Integrity",
                                <<"Some files failed verification. Check logs.">>)

on_complete_cb(p, returncode) ==
    IF p = "org" THEN organizer_complete(returncode) ELSE integrity_complete(returncode)

\* ------------------------------------------------------ the drain loop
\* Mutant of Insert: the text is inserted at the start of the widget.
InsertAtStart(content, item) == item \o content

\* text_widget.insert(tk.END, item)
Insert(content, item) == content \o item

\* Mutant of PollStep: poll schedules itself again after the callback.
PollStepReschedules(p, pend) ==
    IF q[p] = <<>>
    THEN \* queue.Empty: self.after(100, poll)
         /\ pollPending' = Set(pollPending, p, pend + 1)
         /\ uiBusy' = "none"
         /\ dialog' = NoDialog
         /\ UNCHANGED <<widgets, q, inserted, taken, cbCount, cbArg>>
    ELSE LET item == Head(q[p])
         IN  /\ q' = Set(q, p, Tail(q[p]))
             /\ taken' = Set(taken, p, Append(taken[p], item))
             /\ pollPending' = Set(pollPending, p, IF item.tag = "__RC__" THEN pend + 1 ELSE pend)
             /\ IF item.tag = "__RC__"
                THEN /\ on_complete_cb(p, item.code)
                     /\ cbCount' = Set(cbCount, p, cbCount[p] + 1)
                     /\ cbArg' = Set(cbArg, p, item.code)
                     /\ uiBusy' = "none"
                     /\ UNCHANGED <<text, inserted>>
                ELSE IF item.tag = "None"
                THEN /\ uiBusy' = p
                     /\ dialog' = NoDialog
                     /\ UNCHANGED <<widgets, inserted, cbCount, cbArg>>
                ELSE /\ text' = Set(text, p, Insert(text[p], item.str))
                     /\ inserted' = Set(inserted, p, inserted[p] \o item.str)
                     /\ uiBusy' = p
                     /\ dialog' = NoDialog
                     /\ UNCHANGED <<btn, status, progress, cbCount, cbArg>>

\* One pass of poll's while loop: q.get_nowait() and the dispatch on the item.
\* `pend` is the number of poll timers pending while this poll runs.
PollStep(p, pend) ==
    IF q[p] = <<>>
    THEN \* queue.Empty: self.after(100, poll)
         /\ pollPending' = Set(pollPending, p, pend + 1)
         /\ uiBusy' = "none"
         /\ dialog' = NoDialog
         /\ UNCHANGED <<widgets, q, inserted, taken, cbCount, cbArg>>
    ELSE LET item == Head(q[p])
         IN  /\ q' = Set(q, p, Tail(q[p]))
             /\ taken' = Set(taken, p, Append(taken[p], item))
             /\ pollPending' = Set(pollPending, p, pend)
             /\ IF item.tag = "__RC__"
                THEN /\ on_complete_cb(p, item.code)
                     /\ cbCount' = Set(cbCount, p, cbCount[p] + 1)
                     /\ cbArg' = Set(cbArg, p, item.code)
                     /\ uiBusy' = "none"
                     /\ UNCHANGED <<text, inserted>>
                ELSE IF item.tag = "None"
                THEN /\ uiBusy' = p
                     /\ dialog' = NoDialog
                     /\ UNCHANGED <<widgets, inserted, cbCount, cbArg>>
                ELSE /\ text' = Set(text, p, Insert(text[p], item.str))
                     /\ inserted' = Set(inserted, p, inserted[p] \o item.str)
                     /\ uiBusy' = p
                     /\ dialog' = NoDialog
                     /\ UNCHANGED <<btn, status, progress, cbCount, cbArg>>

\* A pending poll timer fires on the idle UI thread and takes its first item.
PollTick(p) ==
    /\ uiBusy = "none"
    /\ pollPending[p] > 0
    /\ PollStep(p, pollPending[p] - 1)
    /\ UNCHANGED <<dirs, bgpc, wpc, rc, nread, popen, enq, readfail>>
    /\ UNCHANGED <<tvars, bvars>>

\* The running poll goes round its while loop once more.
PollLoop(p) ==
    /\ uiBusy = p
    /\ PollStep(p, pollPending[p])
    /\ UNCHANGED <<dirs, bgpc, wpc, rc, nread, popen, enq, readfail>>
    /\ UNCHANGED <<tvars, bvars>>

\* ------------------------------------------------------ clear output
\* Mutant of clear_output_text: clearing also empties the relay queue.
clear_output_and_queue ==
    /\ uiBusy = "none"
    /\ rpc = "idle"
    /\ text' = Set(text, "org", <<>>)
    /\ q' = Set(q, "org", <<>>)
    /\ dialog' = NoDialog
    /\ UNCHANGED <<dirs, bgpc, btn, status, progress, wpc, rc, nread, popen, enq,
                   readfail, drainv>>
    /\ UNCHANGED <<tvars, bvars>>

\* text_out.delete("1.0", tk.END)
clear_output_text ==
    /\ uiBusy = "none"
    /\ rpc = "idle"
    /\ text' = Set(text, "org", <<>>)
    /\ dialog' = NoDialog
    /\ UNCHANGED <<dirs, bgpc, btn, status, progress, workerv, drainv>>
    /\ UNCHANGED <<tvars, bvars>>

\* ------------------------------------------------------ live logs
LogOrder == <<"organizer.log", "integrity_check.log">>

\* os.path.isfile on the two log paths, in the order the code appends them.
FoundLogs(fs) == SelectSeq(LogOrder, LAMBDA f : fs[f] # NoFile)

\* f"--- {os.path.basename(p)} ---\n{data}\n"
Part(f, data) == <<"--- ", f, " ---", "\n">> \o data \o <<"\n">>

\* "\n".join(parts)
RECURSIVE Join(_)
Join(parts) ==
    IF parts = <<>> THEN <<>>
    ELSE IF Len(parts) = 1 THEN parts[1]
    ELSE parts[1] \o <<"\n">> \o Join(Tail(parts))

\* Mutant of ReadFrom: an offset past the end of the file rewinds to its start.
ReadFromRewind(content, pos) ==
    IF pos > Len(content) THEN content
    ELSE IF pos = Len(content) THEN <<>>
    ELSE SubSeq(content, pos + 1, Len(content))

\* fh.seek(pos); fh.read(): the content from pos on, empty at or past the end.
ReadFrom(content, pos) ==
    IF pos >= Len(content) THEN <<>> ELSE SubSeq(content, pos + 1, Len(content))

\* Mutant of TellAfter: the offset is not advanced.
TellStale(content, pos) == pos

\* Mutant of TellAfter: the offset follows the file's length down.
TellEnd(content, pos) == Len(content)

\* fh.tell() after the read: the end of the file, or pos when pos is past it.
TellAfter(content, pos) == IF pos >= Len(content) THEN pos ELSE Len(content)

\* self._tail_positions.get(p, 0)
PosGet(pos, f) == IF f \in DOMAIN pos THEN pos[f] ELSE 0

\* Mutant of TailLoop: a file that cannot be opened ends the loop.
RECURSIVE TailLoopAbort(_, _, _, _)
TailLoopAbort(paths, fs, pos, parts) ==
    IF paths = <<>> THEN [parts |-> parts, pos |-> pos]
    ELSE LET f == Head(paths)
         IN  IF fs[f] = NoFile
             THEN [parts |-> parts, pos |-> pos]
             ELSE LET data == ReadFrom(fs[f], PosGet(pos, f))
                      newpos == [g \in DOMAIN pos \cup {f} |->
                                   IF g = f THEN TellAfter(fs[f], PosGet(pos, f))
                                   ELSE pos[g]]
                  IN  TailLoopAbort(Tail(paths), fs, newpos,
                                    IF data # <<>> THEN Append(parts, Part(f, data)) ELSE parts)

\* The for loop of _do_tail over paths[i..]: the parts read and the offsets
\* after it.  A file that cannot be opened raises and is passed over.
RECURSIVE TailLoop(_, _, _, _)
TailLoop(paths, fs, pos, parts) ==
    IF paths = <<>> THEN [parts |-> parts, pos |-> pos]
    ELSE LET f == Head(paths)
         IN  IF fs[f] = NoFile
             THEN TailLoop(Tail(paths), fs, pos, parts)
             ELSE LET data == ReadFrom(fs[f], PosGet(pos, f))
                      newpos == [g \in DOMAIN pos \cup {f} |->
                                   IF g = f THEN TellAfter(fs[f], PosGet(pos, f))
                                   ELSE pos[g]]
                  IN  TailLoop(Tail(paths), fs, newpos,
                               IF data # <<>> THEN Append(parts, Part(f, data)) ELSE parts)

\* _do_tail past its running check, with the paths, offsets and view it starts
\* from and `pend` timers pending: read, insert, reschedule.
DoTail(paths, pos, view, ins, pend) ==
    LET r == TailLoop(paths, files, pos, <<>>)
    IN  /\ tail_pos' = r.pos
        /\ text_logs' = (IF r.parts # <<>> THEN view \o Join(r.parts) ELSE view)
        /\ logs_inserted' = (IF r.parts # <<>> THEN ins \o Join(r.parts) ELSE ins)
        /\ tailPending' = pend + 1

\* The user types the directory into log_dir_entry.
set_log_dir(v) ==
    /\ uiBusy = "none"
    /\ rpc = "idle"
    /\ log_dir' = v
    /\ UNCHANGED <<files, running, live_paths, tail_pos, text_logs, tailPending,
                   logs_inserted>>
    /\ dialog' = NoDialog
    /\ UNCHANGED <<pvars, bvars>>

\* Browse: p is what askdirectory returns, "" when the dialog is cancelled,
\* and then the entry keeps its text.
browse_log_dir(p) ==
    /\ uiBusy = "none"
    /\ rpc = "idle"
    /\ log_dir' = (IF p # <<>> THEN p ELSE log_dir)
    /\ UNCHANGED <<files, running, live_paths, tail_pos, text_logs, tailPending,
                   logs_inserted>>
    /\ dialog' = NoDialog
    /\ UNCHANGED <<pvars, bvars>>

\* Mutant of start_live_logs: the log view is not cleared.
start_live_logs_keeps_view ==
    /\ uiBusy = "none"
    /\ rpc = "idle"
    /\ tailPending < MaxTimers
    /\ LET d == Strip(log_dir)
           paths == FoundLogs(files)
       IN  IF d = <<>>
           THEN /\ dialog' = Dialog("warning", "Select directory",
                                    <<"Select organized directory to read logs from.">>)
                /\ UNCHANGED <<running, live_paths, tail_pos, text_logs, tailPending,
                               logs_inserted>>
           ELSE IF paths = <<>>
           THEN /\ dialog' = Dialog("warning", "No logs",
                                    <<"No log files found in the selected directory.">>)
                /\ UNCHANGED <<running, live_paths, tail_pos, text_logs, tailPending,
                               logs_inserted>>
           ELSE /\ live_paths' = paths
                /\ running' = TRUE
                /\ DoTail(paths, [i \in {paths[k] : k \in 1..Len(paths)} |-> 0],
                          text_logs, logs_inserted, tailPending)
                /\ dialog' = NoDialog
    /\ UNCHANGED <<log_dir, files>>
    /\ UNCHANGED <<pvars, bvars>>

start_live_logs ==
    /\ uiBusy = "none"
    /\ rpc = "idle"
    /\ tailPending < MaxTimers
    /\ LET d == Strip(log_dir)
           paths == FoundLogs(files)
       IN  IF d = <<>>
           THEN /\ dialog' = Dialog("warning", "Select directory",
                                    <<"Select organized directory to read logs from.">>)
                /\ UNCHANGED <<running, live_paths, tail_pos, text_logs, tailPending,
                               logs_inserted>>
           ELSE IF paths = <<>>
           THEN /\ dialog' = Dialog("warning", "No logs",
                                    <<"No log files found in the selected directory.">>)
                /\ UNCHANGED <<running, live_paths, tail_pos, text_logs, tailPending,
                               logs_inserted>>
           ELSE /\ live_paths' = paths
                /\ running' = TRUE
                /\ DoTail(paths, [i \in {paths[k] : k \in 1..Len(paths)} |-> 0],
                          <<>>, <<>>, tailPending)
                /\ dialog' = NoDialog
    /\ UNCHANGED <<log_dir, files>>
    /\ UNCHANGED <<pvars, bvars>>

\* Mutant of do_tail: the running flag is not checked.
do_tail_ignores_stop ==
    /\ uiBusy = "none"
    /\ tailPending > 0
    /\ DoTail(live_paths, tail_pos, text_logs, logs_inserted, tailPending - 1)
    /\ UNCHANGED <<log_dir, files, running, live_paths>>
    /\ dialog' = NoDialog
    /\ UNCHANGED <<pvars, bvars>>

\* A pending _do_tail timer fires.
do_tail ==
    /\ uiBusy = "none"
    /\ tailPending > 0
    /\ IF ~running
       THEN /\ tailPending' = tailPending - 1
            /\ UNCHANGED <<tail_pos, text_logs, logs_inserted>>
       ELSE DoTail(live_paths, tail_pos, text_logs, logs_inserted, tailPending - 1)
    /\ UNCHANGED <<log_dir, files, running, live_paths>>
    /\ dialog' = NoDialog
    /\ UNCHANGED <<pvars, bvars>>

stop_live_logs ==
    /\ uiBusy = "none"
    /\ rpc = "idle"
    /\ running' = FALSE
    /\ UNCHANGED <<log_dir, files, live_paths, tail_pos, text_logs, tailPending,
                   logs_inserted>>
    /\ dialog' = NoDialog
    /\ UNCHANGED <<pvars, bvars>>

clear_log_view ==
    /\ uiBusy = "none"
    /\ rpc = "idle"
    /\ text_logs' = <<>>
    /\ UNCHANGED <<log_dir, files, running, live_paths, tail_pos, tailPending,
                   logs_inserted>>
    /\ dialog' = NoDialog
    /\ UNCHANGED <<pvars, bvars>>

\* The scripts create their log file and append to it.
CreateLog(f) ==
    /\ files[f] = NoFile
    /\ files' = Set(files, f, <<>>)
    /\ UNCHANGED <<log_dir, running, live_paths, tail_pos, text_logs, tailPending,
                   logs_inserted>>
    /\ dialog' = NoDialog
    /\ UNCHANGED <<pvars, bvars>>

\* The k-th byte a script writes to its log; the bytes of one file are pairwise
\* distinct, so a lost, repeated or reordered byte shows in the view.
Byte(k) == Digit(k)

AppendLog(f) ==
    /\ files[f] # NoFile
    /\ Len(files[f]) < MaxFileLen
    /\ files' = Set(files, f, Append(files[f], Byte(Len(files[f]) + 1)))
    /\ UNCHANGED <<log_dir, running, live_paths, tail_pos, text_logs, tailPending,
                   logs_inserted>>
    /\ dialog' = NoDialog
    /\ UNCHANGED <<pvars, bvars>>

\* The file is deleted: os.path.isfile(p) is false and open(p, 'r') raises
\* from now on, until a script creates the file again.
RemoveLog(f) ==
    /\ files[f] # NoFile
    /\ files' = Set(files, f, NoFile)
    /\ UNCHANGED <<log_dir, running, live_paths, tail_pos, text_logs, tailPending,
                   logs_inserted>>
    /\ dialog' = NoDialog
    /\ UNCHANGED <<pvars, bvars>>

\* The file is truncated to its first n bytes (log rotation with truncate).
TruncateLog(f, n) ==
    /\ files[f] # NoFile
    /\ n < Len(files[f])
    /\ files' = Set(files, f, SubSeq(files[f], 1, n))
    /\ UNCHANGED <<log_dir, running, live_paths, tail_pos, text_logs, tailPending,
                   logs_inserted>>
    /\ dialog' = NoDialog
    /\ UNCHANGED <<pvars, bvars>>

\* The content of a replacement file: no byte of it is one a script appends.
Replacement == <<"A">>

\* The file is replaced by another file under the same name.
ReplaceLog(f) ==
    /\ files[f] # NoFile
    /\ files[f] # Replacement
    /\ files' = Set(files, f, Replacement)
    /\ UNCHANGED <<log_dir, running, live_paths, tail_pos, text_logs, tailPending,
                   logs_inserted>>
    /\ dialog' = NoDialog
    /\ UNCHANGED <<pvars, bvars>>

\* ------------------------------------------------------ backups
\* File names, one character per element.
B2023 == <<"3", ".", "z", "i", "p">>
B2024 == <<"4", ".", "z", "i", "p">>
BUpper == <<"B", ".", "Z", "I", "P">>
Notes == <<"n", ".", "t", "x", "t">>
EntryNames == {B2023, B2024, BUpper, Notes}

\* The directories the user may name, and what each one's backups
\* subdirectory may hold (the second holds at most one archive).
BackRoots == {<<"x">>, <<"y">>}
EntriesOf(r) == IF r = <<"x">> THEN EntryNames ELSE {B2024}
BackDirTexts == {<<>>, <<" ", "x">>, <<"y">>}

NoBackupsDir == [isdir |-> FALSE, names |-> {}]
NoDest == <<>>
NoPath == [d |-> <<>>, name |-> <<>>]

\* ord(c) for the characters of the names.
Ord(c) ==
    CASE c = "." -> 46 [] c = "3" -> 51 [] c = "4" -> 52
      [] c = "B" -> 66 [] c = "I" -> 73 [] c = "P" -> 80 [] c = "Z" -> 90
      [] c = "b" -> 98 [] c = "i" -> 105 [] c = "n" -> 110 [] c = "p" -> 112
      [] c = "t" -> 116 [] c = "x" -> 120 [] c = "z" -> 122

\* str.lower()
LowerChar(c) ==
    CASE c = "B" -> "b" [] c = "I" -> "i" [] c = "P" -> "p" [] c = "Z" -> "z"
      [] OTHER -> c
Lower(s) == [k \in 1..Len(s) |-> LowerChar(s[k])]

\* str.endswith
EndsWith(s, suffix) ==
    Len(suffix) <= Len(s) /\ SubSeq(s, Len(s) - Len(suffix) + 1, Len(s)) = suffix

DotZip == <<".", "z", "i", "p">>

\* a < b for Python strings: by code point, a proper prefix first.
RECURSIVE StrLess(_, _)
StrLess(a, b) ==
    IF a = <<>> THEN b # <<>>
    ELSE IF b = <<>> THEN FALSE
    ELSE IF Head(a) # Head(b) THEN Ord(Head(a)) < Ord(Head(b))
    ELSE StrLess(Tail(a), Tail(b))

\* Mutant of SortedDesc: ascending order.
RECURSIVE SortedAsc(_)
SortedAsc(names) ==
    IF names = {} THEN <<>>
    ELSE LET m == CHOOSE x \in names : \A y \in names \ {x} : StrLess(x, y)
         IN  <<m>> \o SortedAsc(names \ {m})

\* sorted(os.listdir(backups_dir), reverse=True)
RECURSIVE SortedDesc(_)
SortedDesc(names) ==
    IF names = {} THEN <<>>
    ELSE LET m == CHOOSE x \in names : \A y \in names \ {x} : StrLess(y, x)
         IN  <<m>> \o SortedDesc(names \ {m})

\* os.path.isdir(os.path.join(d, "backups")); the working directory (d = "")
\* has no backups subdirectory.
IsBackupsDir(d) == d \in BackRoots /\ backups[d].isdir

\* os.path.isfile(os.path.join(d, "backups", name))
IsBackupFile(d, name) == IsBackupsDir(d) /\ name \in backups[d].names

\* os.path.join(a, b)
PathJoin(a, b) == IF a = <<>> THEN b ELSE a \o <<"/">> \o b

\* The items refresh_backups inserts for the directory text v.
Listing(v) ==
    LET d == Strip(v)
    IN  IF d = <<>> THEN <<>>
        ELSE IF ~IsBackupsDir(d) THEN <<>>
        ELSE SelectSeq(SortedDesc(backups[d].names),
                       LAMBDA f : EndsWith(Lower(f), DotZip))

BInit ==
    /\ back_dir = <<>>
    /\ backups = [r \in BackRoots |-> NoBackupsDir]
    /\ backups_list = <<>>
    /\ cursel = 0
    /\ dest = NoDest
    /\ rpc = "idle"
    /\ rpath = NoPath
    /\ rdest = <<>>

\* The user types a directory into the entry.
set_back_dir(v) ==
    /\ uiBusy = "none"
    /\ rpc = "idle"
    /\ back_dir' = v
    /\ UNCHANGED <<backups, backups_list, cursel, dest, rvars>>
    /\ dialog' = NoDialog
    /\ UNCHANGED <<pvars, tvars>>

\* Refresh Backups: the list is emptied (and with it the selection) and filled.
refresh_backups ==
    /\ uiBusy = "none"
    /\ rpc = "idle"
    /\ backups_list' = Listing(back_dir)
    /\ cursel' = 0
    /\ UNCHANGED <<back_dir, backups, dest, rvars>>
    /\ dialog' = NoDialog
    /\ UNCHANGED <<pvars, tvars>>

\* Browse: askdirectory returns p; a cancelled dialog ("") changes nothing.
browse_back_dir(p) ==
    /\ uiBusy = "none"
    /\ rpc = "idle"
    /\ IF p # <<>>
       THEN /\ back_dir' = p
            /\ backups_list' = Listing(p)
            /\ cursel' = 0
       ELSE UNCHANGED <<back_dir, backups_list, cursel>>
    /\ UNCHANGED <<backups, dest, rvars>>
    /\ dialog' = NoDialog
    /\ UNCHANGED <<pvars, tvars>>

\* The user clicks item i of the list.
select_backup(i) ==
    /\ uiBusy = "none"
    /\ rpc = "idle"
    /\ i \in 1..Len(backups_list)
    /\ cursel' = i
    /\ UNCHANGED <<back_dir, backups, backups_list, dest, rvars>>
    /\ dialog' = NoDialog
    /\ UNCHANGED <<pvars, tvars>>

ExtractOutcomes == {"ok", "failed", "failed_partial"}
DestChoices == {<<>>, <<"r">>}

\* What z.extractall(dest) leaves in the destination.
Extracted(d, name, part) == [root |-> d, name |-> name, part |-> part]

\* os.path.join(d, "backups", name)
BackupPath(d, name) == PathJoin(PathJoin(d, <<"backups">>), name)

\* repr(path) of a path without quotes or backslashes, as the names here are.
Repr(path) == <<"'">> \o path \o <<"'">>

\* str(e) of the FileNotFoundError that zipfile.ZipFile(backup_path, 'r')
\* raises when the archive is not there: the file name is formatted with repr.
NoSuchFile(d, name) ==
    <<"[Errno 2] No such file or directory: ">> \o Repr(BackupPath(d, name))

\* Restore Selected Backup up to the folder dialog: the selection and the
\* os.path.isfile check, then askdirectory opens and the handler waits in it.
\* The dialog is modal: no other button of the window is served meanwhile,
\* while timers fire and the file system changes.
restore_selected_backup ==
    /\ uiBusy = "none"
    /\ rpc = "idle"
    /\ IF cursel = 0
       THEN /\ dialog' = Dialog("warning", "Select backup", <<"Choose a backup to restore.">>)
            /\ UNCHANGED rvars
       ELSE LET name == backups_list[cursel]
                d == Strip(back_dir)
                backup_path == BackupPath(d, name)
            IN  IF ~IsBackupFile(d, name)
                THEN /\ dialog' = Dialog("error", "Not found", backup_path)
                     /\ UNCHANGED rvars
                ELSE /\ rpc' = "askdirectory"
                     /\ rpath' = [d |-> d, name |-> name]
                     /\ rdest' = <<>>
                     /\ dialog' = NoDialog
    /\ UNCHANGED <<back_dir, backups, backups_list, cursel, dest>>
    /\ UNCHANGED <<pvars, tvars>>

\* askdirectory returns dest_choice ("" = cancelled): the handler returns, or
\* opens the confirmation and waits in it.  The dialog runs on the UI thread:
\* it does not return while a timer callback is running there.
restore_askdirectory(dest_choice) ==
    /\ uiBusy = "none"
    /\ rpc = "askdirectory"
    /\ IF dest_choice = <<>>
       THEN /\ rpc' = "idle"
            /\ rpath' = NoPath
            /\ rdest' = <<>>
            /\ dialog' = NoDialog
       ELSE /\ rpc' = "askyesno"
            /\ rdest' = dest_choice
            /\ rpath' = rpath
            /\ dialog' = Dialog("askyesno", "Confirm restore",
                                <<"Restore ">> \o rpath.name \o <<" into ">> \o dest_choice
                                    \o <<"? This may overwrite files.">>)
    /\ UNCHANGED <<back_dir, backups, backups_list, cursel, dest>>
    /\ UNCHANGED <<pvars, tvars>>

\* Mutant of restore_askyesno: the answer to the confirmation is ignored.
restore_askyesno_unconfirmed(confirm, outcome) ==
    /\ uiBusy = "none"
    /\ rpc = "askyesno"
    /\ IF ~IsBackupFile(rpath.d, rpath.name)
       THEN /\ dest' = dest
            /\ dialog' = Dialog("error", "Restore failed",
                                <<"Failed to restore: ">> \o NoSuchFile(rpath.d, rpath.name))
       ELSE IF outcome = "ok"
       THEN /\ dest' = Extracted(rpath.d, rpath.name, "all")
            /\ dialog' = Dialog("info", "Restored", <<"Backup restored into ">> \o rdest)
       ELSE /\ dest' = (IF outcome = "failed_partial"
                        THEN Extracted(rpath.d, rpath.name, "some") ELSE dest)
            /\ dialog' = Dialog("error", "Restore failed",
                                <<"Failed to restore: ", "Exception">>)
    /\ rpc' = "idle"
    /\ rpath' = NoPath
    /\ rdest' = <<>>
    /\ UNCHANGED <<back_dir, backups, backups_list, cursel>>
    /\ UNCHANGED <<pvars, tvars>>

\* askyesno returns `confirm`; on yes, zipfile.ZipFile(backup_path) and
\* extractall(dest) run inside the try.  An archive deleted since the isfile
\* check makes ZipFile raise before anything is written; `outcome` is what
\* the extraction of an archive that is there does.
restore_askyesno(confirm, outcome) ==
    /\ uiBusy = "none"
    /\ rpc = "askyesno"
    /\ IF ~confirm
       THEN /\ dest' = dest
            /\ dialog' = NoDialog
       ELSE IF ~IsBackupFile(rpath.d, rpath.name)
       THEN /\ dest' = dest
            /\ dialog' = Dialog("error", "Restore failed",
                                <<"Failed to restore: ">> \o NoSuchFile(rpath.d, rpath.name))
       ELSE IF outcome = "ok"
       THEN /\ dest' = Extracted(rpath.d, rpath.name, "all")
            /\ dialog' = Dialog("info", "Restored", <<"Backup restored into ">> \o rdest)
       ELSE /\ dest' = (IF outcome = "failed_partial"
                        THEN Extracted(rpath.d, rpath.name, "some") ELSE dest)
            /\ dialog' = Dialog("error", "Restore failed",
                                <<"Failed to restore: ", "Exception">>)
    /\ rpc' = "idle"
    /\ rpath' = NoPath
    /\ rdest' = <<>>
    /\ UNCHANGED <<back_dir, backups, backups_list, cursel>>
    /\ UNCHANGED <<pvars, tvars>>

\* The organize script creates the backups subdirectory and writes archives
\* into it; the user or a cleanup job deletes entries.
MakeBackupsDir(r) ==
    /\ ~backups[r].isdir
    /\ backups' = Set(backups, r, [isdir |-> TRUE, names |-> {}])
    /\ UNCHANGED <<back_dir, backups_list, cursel, dest, rvars>>
    /\ dialog' = NoDialog
    /\ UNCHANGED <<pvars, tvars>>

WriteBackup(r, n) ==
    /\ backups[r].isdir
    /\ n \in EntriesOf(r) \ backups[r].names
    /\ backups' = Set(backups, r, [isdir |-> TRUE, names |-> backups[r].names \cup {n}])
    /\ UNCHANGED <<back_dir, backups_list, cursel, dest, rvars>>
    /\ dialog' = NoDialog
    /\ UNCHANGED <<pvars, tvars>>

DeleteBackup(r, n) ==
    /\ backups[r].isdir
    /\ n \in backups[r].names
    /\ backups' = Set(backups, r, [isdir |-> TRUE, names |-> backups[r].names \ {n}])
    /\ UNCHANGED <<back_dir, backups_list, cursel, dest, rvars>>
    /\ dialog' = NoDialog
    /\ UNCHANGED <<pvars, tvars>>

\* ------------------------------------------------------ open folder, open log
\* Open Output Folder: a warning without a path, else the folder is handed to
\* the desktop's opener, which shows no messagebox of this program.
open_output_folder(out_var) ==
    /\ uiBusy = "none"
    /\ rpc = "idle"
    /\ LET path == Strip(out_var)
       IN  IF path = <<>>
           THEN dialog' = Dialog("warning", "No Output",
                                 <<"Please select an output folder first.">>)
           ELSE dialog' = NoDialog
    /\ UNCHANGED <<pvars, tvars, bvars>>

ChecksumLog == <<"organized_files_checksum.log">>

\* Open Checksum Log: `isfile` is whether the directory, if it exists, holds
\* the checksum log (os.path.isfile on the joined path).
open_checksum_log(verify_dir_var, isfile) ==
    /\ uiBusy = "none"
    /\ rpc = "idle"
    /\ LET d == Strip(verify_dir_var)
           chk == PathJoin(d, ChecksumLog)
       IN  IF d = <<>>
           THEN dialog' = Dialog("warning", "Missing path",
                                 <<"Select organized directory first.">>)
           ELSE IF ~(d \in dirs /\ isfile)
           THEN dialog' = Dialog("error", "Not found",
                                 <<"Checksum log not found: ">> \o chk)
           ELSE dialog' = NoDialog
    /\ UNCHANGED <<pvars, tvars, bvars>>

\* ------------------------------------------------------ specifications
Init == PInit /\ TIdle /\ BInit

\* The Organizer tab and the Integrity tab: every button of the two, the
\* threads of both pipelines, and the poll timers.
Next ==
    \/ \E s, o \in Paths : run_organizer(s, o)
    \/ \E d \in Paths : run_integrity(d)
    \/ \E o \in Paths : open_output_folder(o)
    \/ \E d \in Paths, e \in BOOLEAN : open_checksum_log(d, e)
    \/ \E p \in P : background_run_and_stream(p)
    \/ \E p \in P : after_poll(p)
    \/ \E p \in P, o \in PopenOutcomes : Popen(p, o)
    \/ \E p \in P : ReadLine(p)
    \/ \E p \in P, c \in ExitCodes : ReadEOF(p, c)
    \/ \E p \in P : ReadFail(p)
    \/ \E p \in P : PutSentinel(p)
    \/ \E p \in P : PutRc(p)
    \/ \E p \in P : PollTick(p)
    \/ \E p \in P : PollLoop(p)
    \/ clear_output_text

Spec == Init /\ [][Next]_vars

\* The Organizer tab alone: its buttons, the threads of an organizer run and
\* its poll timer.
OrgNext ==
    \/ \E s, o \in Paths : run_organizer(s, o)
    \/ \E o \in Paths : open_output_folder(o)
    \/ clear_output_text
    \/ background_run_and_stream("org")
    \/ after_poll("org")
    \/ \E o \in PopenOutcomes : Popen("org", o)
    \/ ReadLine("org")
    \/ \E c \in ExitCodes : ReadEOF("org", c)
    \/ ReadFail("org")
    \/ PutSentinel("org")
    \/ PutRc("org")
    \/ PollTick("org")
    \/ PollLoop("org")

OrgSpec == Init /\ [][OrgNext]_vars

\* The Integrity tab alone.
VerNext ==
    \/ \E d \in Paths : run_integrity(d)
    \/ \E d \in Paths, e \in BOOLEAN : open_checksum_log(d, e)
    \/ background_run_and_stream("ver")
    \/ after_poll("ver")
    \/ \E o \in PopenOutcomes : Popen("ver", o)
    \/ ReadLine("ver")
    \/ \E c \in ExitCodes : ReadEOF("ver", c)
    \/ ReadFail("ver")
    \/ PutSentinel("ver")
    \/ PutRc("ver")
    \/ PollTick("ver")
    \/ PollLoop("ver")

VerSpec == Init /\ [][VerNext]_vars

\* The live log tailer over log files that only grow.
LogDirTexts == {<<" ", "d">>}

TailNext ==
    \/ \E v \in LogDirTexts : set_log_dir(v)
    \/ \E p \in {<<>>} \cup LogDirTexts : browse_log_dir(p)
    \/ start_live_logs
    \/ do_tail
    \/ stop_live_logs
    \/ clear_log_view
    \/ \E f \in LogNames : CreateLog(f)
    \/ \E f \in LogNames : AppendLog(f)

TailSpec == Init /\ [][TailNext]_vars

\* The live log tailer while tailing is active (Stop is not pressed), over log
\* files that the environment may also delete, truncate and replace between
\* any two steps of the UI thread.
TailEnvNext ==
    \/ \E v \in LogDirTexts : set_log_dir(v)
    \/ \E p \in {<<>>} \cup LogDirTexts : browse_log_dir(p)
    \/ start_live_logs
    \/ do_tail
    \/ \E f \in LogNames : CreateLog(f)
    \/ \E f \in LogNames : AppendLog(f)
    \/ \E f \in LogNames : RemoveLog(f)
    \/ \E f \in LogNames, n \in 0..(MaxFileLen - 1) : TruncateLog(f, n)
    \/ \E f \in LogNames : ReplaceLog(f)

TailEnvSpec == Init /\ [][TailEnvNext]_vars

\* The two Run buttons and the threads and timers of both pipelines, where
\* each process prints at most MaxOverlapLines lines: the runs of the two
\* pipelines overlap in every way the threads allow.
ReadLineOverlap(p) == nread[p] < MaxOverlapLines /\ ReadLine(p)

OverlapNext ==
    \/ \E s, o \in Paths : run_organizer(s, o)
    \/ \E d \in Paths : run_integrity(d)
    \/ \E p \in P : background_run_and_stream(p)
    \/ \E p \in P : after_poll(p)
    \/ \E p \in P, o \in PopenOutcomes : Popen(p, o)
    \/ \E p \in P : ReadLineOverlap(p)
    \/ \E p \in P, c \in ExitCodes : ReadEOF(p, c)
    \/ \E p \in P : ReadFail(p)
    \/ \E p \in P : PutSentinel(p)
    \/ \E p \in P : PutRc(p)
    \/ \E p \in P : PollTick(p)
    \/ \E p \in P : PollLoop(p)

OverlapSpec == Init /\ [][OverlapNext]_vars

\* The backups tab.
BackupNext ==
    \/ \E v \in BackDirTexts : set_back_dir(v)
    \/ \E p \in {<<>>} \cup BackRoots : browse_back_dir(p)
    \/ refresh_backups
    \/ \E i \in 1..Cardinality(EntryNames) : select_backup(i)
    \/ restore_selected_backup
    \/ \E c \in DestChoices : restore_askdirectory(c)
    \/ \E y \in BOOLEAN, o \in ExtractOutcomes : restore_askyesno(y, o)
    \/ \E r \in BackRoots : MakeBackupsDir(r)
    \/ \E r \in BackRoots, n \in EntryNames : WriteBackup(r, n)
    \/ \E r \in BackRoots, n \in EntryNames : DeleteBackup(r, n)

BackupSpec == Init /\ [][BackupNext]_vars

\* Scheduling: a started thread runs, the UI thread's event loop serves the
\* call a thread has handed to it, the worker's next step is taken (the
\* process ends or its output fails within MaxLines lines), and the Tk main
\* loop fires a pending timer and lets a running handler continue.
Worker(p) ==
    \/ \E o \in PopenOutcomes : Popen(p, o)
    \/ ReadLine(p)
    \/ \E c \in ExitCodes : ReadEOF(p, c)
    \/ ReadFail(p)
    \/ PutSentinel(p)
    \/ PutRc(p)

Poll(p) == PollTick(p) \/ PollLoop(p)

Fairness ==
    \A p \in P : /\ WF_vars(background_run_and_stream(p))
                 /\ SF_vars(after_poll(p))
                 /\ WF_vars(Worker(p))
                 /\ WF_vars(Poll(p))

FairSpec == Spec /\ Fairness

OrgFairSpec == OrgSpec /\ Fairness

\* ================================================================ claims
IsSuffix(a, b) == Len(a) <= Len(b) /\ a = SubSeq(b, Len(b) - Len(a) + 1, Len(b))
Last(seq) == seq[Len(seq)]

\* The lines the process of pipeline p has written so far, in order.
Written(p) == [k \in 1..nread[p] |-> Line(p, k)]

\* Whether seq holds sub as a contiguous run of tokens.
Contains(seq, sub) ==
    \E i \in 0..(Len(seq) - Len(sub)) : SubSeq(seq, i + 1, i + Len(sub)) = sub

\* The worker thread of p has ended.
WorkerEnded(p) == wpc[p] \in {"done", "raised"}

\* C1: every invocation of the background runner (normal exit, launch failure,
\* stream failure) enqueues exactly one Completion Signal, after every Output
\* Chunk, and it is the last item the drain loop takes.
C1_OneCompletionSignalLast ==
    \A p \in P :
        /\ CountRc(enq[p]) <= 1
        /\ (CountRc(enq[p]) = 1 => Last(enq[p]).tag = "__RC__")
        /\ (WorkerEnded(p) => CountRc(enq[p]) = 1)
        /\ (CountRc(taken[p]) >= 1 =>
               /\ Last(taken[p]).tag = "__RC__"
               /\ taken[p] = enq[p]
               /\ q[p] = <<>>
               /\ pollPending[p] = 0)

\* The part of C1 the code does satisfy: as C1, for the invocations whose
\* Popen call succeeds or raises FileNotFoundError.
C1_ExceptNotStartable ==
    \A p \in P :
        /\ CountRc(enq[p]) <= 1
        /\ (CountRc(enq[p]) = 1 => Last(enq[p]).tag = "__RC__")
        /\ (wpc[p] = "done" => CountRc(enq[p]) = 1)
        /\ (wpc[p] = "raised" => popen[p] = "EACCES")
        /\ (CountRc(taken[p]) >= 1 =>
               /\ Last(taken[p]).tag = "__RC__"
               /\ taken[p] = enq[p]
               /\ q[p] = <<>>
               /\ pollPending[p] = 0)

\* C2: the N lines a process writes before it exits are appended to the
\* display in the order enqueued, none lost, none repeated, and the completion
\* callback is invoked exactly once, strictly after all N lines are appended.
C2_Safety ==
    \A p \in P :
        (popen[p] = "ok" /\ ~readfail[p]) =>
            /\ Chunks(enq[p]) = Written(p)
            /\ inserted[p] \o Flatten(Chunks(q[p])) = Flatten(Written(p))
            /\ Chunks(taken[p]) \o Chunks(q[p]) = Written(p)
            /\ IsSuffix(text[p], inserted[p])
            /\ (p = "ver" /\ bgpc[p] = "idle" => text[p] = inserted[p])
            /\ cbCount[p] <= 1
            /\ (cbCount[p] = 1 =>
                   /\ wpc[p] = "done"
                   /\ inserted[p] = Flatten(Written(p))
                   /\ cbArg[p] = rc[p])

Exited(p) == popen[p] = "ok" /\ ~readfail[p] /\ wpc[p] \in {"sentinel", "rc", "done"}

C2_OrderThenCompletion ==
    /\ []C2_Safety
    /\ \A p \in P : Exited(p) ~> (cbCount[p] = 1)

C2_Witness ==
    /\ popen["org"] = "ok" /\ ~readfail["org"]
    /\ nread["org"] = MaxLines
    /\ cbCount["org"] = 1
    /\ text["org"] = Flatten(Written("org"))

\* C3: no failure mode (executable missing, present but not startable, I/O
\* error while reading) escapes the runner: the worker never ends by an
\* exception, and once it has ended and its queue is drained the callback has
\* been invoked and the Run button is enabled again.
C3_NoFailureEscapes ==
    \A p \in P :
        /\ wpc[p] # "raised"
        /\ (WorkerEnded(p) /\ bgpc[p] = "idle" /\ q[p] = <<>> /\ uiBusy # p) =>
               (cbCount[p] = 1 /\ btn[p] = "normal" /\ pollPending[p] = 0)

\* C4: a missing executable gives exactly one diagnostic chunk and no other
\* chunk, completion code 127, and no exception.
C4_MissingExecutable ==
    \A p \in P :
        popen[p] = "ENOENT" =>
            /\ Chunks(enq[p]) = <<DiagNotFound(p)>>
            /\ wpc[p] # "raised"
            /\ rc[p] = 127
            /\ (wpc[p] = "done" => Last(enq[p]) = RcItem(127))
            /\ (cbCount[p] = 1 => cbArg[p] = 127 /\ inserted[p] = DiagNotFound(p))

C4_Witness ==
    /\ popen["ver"] = "ENOENT"
    /\ cbCount["ver"] = 1
    /\ text["ver"] = DiagNotFound("ver")

\* C5: an executable that exists but cannot be started gives a single
\* diagnostic chunk and completion code 127, as a missing executable does.
C5_NotStartable ==
    \A p \in P :
        popen[p] = "EACCES" =>
            /\ Len(Chunks(enq[p])) = 1
            /\ wpc[p] # "raised"
            /\ rc[p] = 127

\* C6: a failure while reading the output puts one diagnostic chunk after all
\* chunks already enqueued, which keep their order and are still displayed,
\* and gives completion code 1.
C6_StreamFailure ==
    \A p \in P :
        readfail[p] =>
            /\ Chunks(enq[p]) = Written(p) \o <<DiagFailed>>
            /\ inserted[p] \o Flatten(Chunks(q[p])) = Flatten(Written(p)) \o DiagFailed
            /\ rc[p] = 1
            /\ wpc[p] # "raised"
            /\ (wpc[p] = "done" => Last(enq[p]) = RcItem(1))
            /\ (cbCount[p] = 1 =>
                   cbArg[p] = 1 /\ inserted[p] = Flatten(Written(p)) \o DiagFailed)

C6_Witness ==
    /\ readfail["org"]
    /\ nread["org"] = MaxLines
    /\ cbCount["org"] = 1
    /\ text["org"] = Flatten(Written("org")) \o DiagFailed

\* C7: a validation failure (empty source or output path, source that is no
\* existing directory; empty or non-existent directory to verify) is rejected
\* synchronously: nothing is launched, no thread and no drain loop is started,
\* no output directory is created, and the pipeline's widgets are unchanged;
\* only the failure is reported.
OrgInvalid(s, o) == Strip(s) = <<>> \/ Strip(o) = <<>> \/ Strip(s) \notin dirs
VerInvalid(d) == Strip(d) = <<>> \/ Strip(d) \notin dirs

NothingStarted ==
    /\ UNCHANGED <<dirs, bgpc, btn, status, progress, text>>
    /\ UNCHANGED <<q, wpc, pollPending, uiBusy, enq, cbCount>>
    /\ dialog'.kind \in {"warning", "error"}

\* C7 as a formula: every step of a run handler on invalid input starts
\* nothing.  (A run handler changes no variable of the worker or of the drain
\* loop, so its steps are among those that leave them unchanged.)
C7_ValidationRejects ==
    [][UNCHANGED <<workerv, drainv>> =>
          /\ \A s, o \in Paths :
                 (OrgInvalid(s, o) /\ run_organizer(s, o)) => NothingStarted
          /\ \A d \in Paths :
                 (VerInvalid(d) /\ run_integrity(d)) => NothingStarted]_vars

C7_Witness ==
    /\ dialog.title = "Invalid source"
    /\ dirs = {<<"a">>}
    /\ \A p \in P : btn[p] = "normal" /\ status[p] = "Idle" /\ wpc[p] = "idle"

\* C8 as claimed: in both pipelines the callback treats 0 as success and every
\* nonzero code, 127 included, as a failure shown as a warning that contains
\* the numeric code; in both cases it stops the progress bar and re-enables
\* the Run button.
CallbackRuns(p) == cbCount'[p] = cbCount[p] + 1
SuccessStatus(p) == IF p = "org" THEN "Organizer completed successfully" ELSE "Integrity OK"

C8_WarningHasCode ==
    [][\A p \in P : CallbackRuns(p) =>
          LET c == cbArg'[p]
          IN  /\ progress'[p] = FALSE
              /\ btn'[p] = "normal"
              /\ (c = 0 => dialog'.kind = "info" /\ status'[p] = SuccessStatus(p))
              /\ (c # 0 => /\ dialog'.kind = "warning"
                           /\ status'[p] # SuccessStatus(p)
                           /\ Contains(dialog'.msg, Str(c)))]_vars

\* C8 amended: as claimed, except that only the organizer's warning contains
\* the numeric code; the verify warning is a fixed text without it.
C8_WarningHasCodeOrgOnly ==
    [][\A p \in P : CallbackRuns(p) =>
          LET c == cbArg'[p]
          IN  /\ progress'[p] = FALSE
              /\ btn'[p] = "normal"
              /\ (c = 0 => dialog'.kind = "info" /\ status'[p] = SuccessStatus(p))
              /\ (c # 0 => /\ dialog'.kind = "warning"
                           /\ status'[p] # SuccessStatus(p)
                           /\ (p = "org" <=> Contains(dialog'.msg, Str(c))))]_vars

C8_Witness ==
    /\ cbCount["ver"] = 1 /\ cbArg["ver"] = 127
    /\ dialog = Dialog("warning", "Integrity", <<"Some files failed verification. Check logs.">>)
    /\ btn["ver"] = "normal" /\ ~progress["ver"]
    /\ cbCount["org"] = 1 /\ cbArg["org"] = 127

\* C9: Clear output empties the display, and clearing an empty display changes
\* nothing; during an active drain it removes only text already appended: no
\* chunk still in the queue is lost, each is appended on a later tick, in
\* order, and the completion callback still fires.
C9_NoChunkLost ==
    \A p \in P :
        /\ inserted[p] \o Flatten(Chunks(q[p])) = Flatten(Chunks(enq[p]))
        /\ IsSuffix(text[p], inserted[p])
        /\ (q[p] # <<>> => pollPending[p] > 0 \/ uiBusy = p \/ bgpc[p] = "after")

C9_ClearStep ==
    /\ clear_output_text => (text'["org"] = <<>> /\ UNCHANGED <<q, pollPending, inserted>>)
    /\ (clear_output_text /\ text["org"] = <<>>) => UNCHANGED <<pvars, tvars>>
    /\ \A p \in P :
          Len(inserted'[p]) > Len(inserted[p]) =>
              text'[p] = text[p] \o SubSeq(inserted'[p], Len(inserted[p]) + 1,
                                           Len(inserted'[p]))

C9_ClearLosesNothing ==
    /\ []C9_NoChunkLost
    /\ [][C9_ClearStep]_vars
    /\ \A p \in P : (q[p] # <<>>) ~> (q[p] = <<>>)
    /\ \A p \in P : (CountRc(q[p]) = 1) ~> (cbCount[p] = 1)

C9_Witness ==
    /\ nread["org"] = 2
    /\ inserted["org"] = Line("org", 1) \o Line("org", 2)
    /\ text["org"] = Line("org", 2)
    /\ cbCount["org"] = 1

\* C10: for log files that only grow, every byte of a tailed file up to its
\* recorded offset has been appended to the view exactly once, in file order,
\* each batch under the file's name header; after a tick the offset is the
\* file's length, and a tick that finds nothing new appends nothing.  Writing
\* X, starting the tailer and appending Y before the next tick shows X once
\* and Y once, in that order.
Tailed == {live_paths[k] : k \in 1..Len(live_paths)}

\* The bytes shown under the header of file f in a view, in order.
RECURSIVE DataOf(_, _, _)
DataOf(f, toks, cur) ==
    IF toks = <<>> THEN <<>>
    ELSE IF Head(toks) = "--- " /\ Len(toks) >= 4
    THEN DataOf(f, SubSeq(toks, 5, Len(toks)), toks[2])
    ELSE IF Head(toks) = "\n" THEN DataOf(f, Tail(toks), cur)
    ELSE (IF cur = f THEN <<Head(toks)>> ELSE <<>>) \o DataOf(f, Tail(toks), cur)

\* A view made of batches: header, at least one byte, newline; a batch may be
\* followed by the newline that joins it to the next batch of the same tick.
RECURSIVE Batched(_)
Batched(toks) ==
    \/ toks = <<>>
    \/ /\ Len(toks) >= 6
       /\ toks[1] = "--- " /\ toks[2] \in LogNames /\ toks[3] = " ---" /\ toks[4] = "\n"
       /\ toks[5] \notin {"--- ", "\n"}
       /\ LET rest == SubSeq(toks, 5, Len(toks))
              n == CHOOSE i \in 1..Len(rest) :
                       /\ rest[i] = "\n"
                       /\ \A j \in 1..(i - 1) : rest[j] # "\n"
              after == SubSeq(rest, n + 1, Len(rest))
          IN  /\ \E i \in 1..Len(rest) : rest[i] = "\n"
              /\ \A j \in 1..(n - 1) : rest[j] # "--- "
              /\ IF after # <<>> /\ Head(after) = "\n"
                 THEN Len(after) > 1 /\ Batched(Tail(after))
                 ELSE Batched(after)

C10_Shown ==
    /\ Batched(logs_inserted)
    /\ IsSuffix(text_logs, logs_inserted)
    /\ \A f \in LogNames :
          IF f \in Tailed
          THEN /\ f \in DOMAIN tail_pos
               /\ files[f] # NoFile
               /\ tail_pos[f] <= Len(files[f])
               /\ DataOf(f, logs_inserted, "") = SubSeq(files[f], 1, tail_pos[f])
          ELSE DataOf(f, logs_inserted, "") = <<>>

\* A step that reads the files: a tick while running, or a successful start.
Reads == (do_tail /\ running) \/ (start_live_logs /\ running' /\ tailPending' > tailPending)

C10_TickStep ==
    /\ Reads => \A f \in Tailed' : tail_pos'[f] = Len(files[f])
    /\ (do_tail /\ \A f \in Tailed : tail_pos[f] = Len(files[f])) =>
           UNCHANGED <<text_logs, logs_inserted, tail_pos>>

C10_TailerRoundTrip == []C10_Shown /\ [][C10_TickStep]_vars

C10_Witness ==
    /\ files["organizer.log"] = <<Byte(1), Byte(2)>>
    /\ tail_pos = [f \in {"organizer.log"} |-> 2]
    /\ text_logs = Part("organizer.log", <<Byte(1)>>) \o Part("organizer.log", <<Byte(2)>>)

\* ---------------------------------------------------------------- C11
\* A successful Start Live Logs: the step that resets the table of offsets.
Restarted == tailPending' = tailPending + 1 /\ start_live_logs

\* C11: while tailing is active and not restarted, the recorded offset of
\* every tailed file never decreases from one step to the next, whatever
\* happens to the file in between (growth, no change, removal, truncation,
\* replacement): every step other than a successful start keeps each recorded
\* offset or raises it.
C11_OffsetsNeverDecrease ==
    [][~Restarted =>
          \A f \in DOMAIN tail_pos :
              f \in DOMAIN tail_pos' /\ tail_pos'[f] >= tail_pos[f]]_vars

\* Ticks have read both files, organizer.log has been replaced by a shorter
\* file, and its offset is still the one recorded before the replacement.
C11_Witness ==
    /\ running
    /\ files["organizer.log"] = Replacement
    /\ tail_pos = [f \in LogNames |-> IF f = "organizer.log" THEN 2 ELSE 1]
    /\ text_logs = Part("organizer.log", <<Byte(1), Byte(2)>>)
                       \o Part("integrity_check.log", <<Byte(1)>>)

\* ---------------------------------------------------------------- C12
\* The bytes of file f from offset n on: what a read from n should show.
From(f, n) == IF n < Len(files[f]) THEN SubSeq(files[f], n + 1, Len(files[f])) ELSE <<>>

\* A tick of the running tail loop (it leaves the files and the flag alone).
Tick == running /\ UNCHANGED <<files, running>> /\ do_tail

\* C12: at a tick, a tailed file that is missing or cannot be opened is passed
\* over for that tick only: its offset is unchanged and nothing is shown for
\* it, while every readable tailed file is read from its recorded offset and
\* shown in the same tick, and the loop is rescheduled; so when the file is
\* readable again it is read from the offset recorded before it went away.
\* Stated of the loop of a tick taken in any reachable state (what it would
\* read and record), and of every tick step taken.
C12_LoopSkips ==
    running =>
        LET r == TailLoop(live_paths, files, tail_pos, <<>>)
            shown == Join(r.parts)
        IN  \A f \in Tailed :
                IF files[f] = NoFile
                THEN r.pos[f] = tail_pos[f] /\ DataOf(f, shown, "") = <<>>
                ELSE DataOf(f, shown, "") = From(f, tail_pos[f])

C12_TickStep ==
    Tick =>
          /\ tailPending' = tailPending
          /\ \A f \in Tailed :
                /\ f \in DOMAIN tail_pos
                /\ IF files[f] = NoFile
                   THEN /\ tail_pos'[f] = tail_pos[f]
                        /\ DataOf(f, logs_inserted', "") = DataOf(f, logs_inserted, "")
                   ELSE DataOf(f, logs_inserted', "") =
                            DataOf(f, logs_inserted, "") \o From(f, tail_pos[f])

C12_UnreadableSkipped == []C12_LoopSkips /\ [][C12_TickStep]_vars

\* organizer.log was read up to offset 1 and is gone; integrity_check.log has
\* been read and shown since, and the offset of organizer.log is still 1.
C12_Witness ==
    /\ running
    /\ tailPending = 1
    /\ files["organizer.log"] = NoFile
    /\ files["integrity_check.log"] = <<Byte(1)>>
    /\ tail_pos = [f \in LogNames |-> 1]
    /\ text_logs = Part("organizer.log", <<Byte(1)>>)
                       \o Part("integrity_check.log", <<Byte(1)>>)

\* ---------------------------------------------------------------- C13
\* C13: tailing goes on until it is stopped, and stopping is cooperative.
\* While the running flag is set a tick reads every tailed file to its end and
\* leaves one tick pending; only Stop Live Logs clears the flag; with the flag
\* cleared a tick reads nothing, shows nothing, changes no offset and
\* schedules nothing; and until Start Live Logs is invoked again no step
\* changes the table of offsets or shows anything in the log view.
C13_StoppedTick ==
    (do_tail /\ ~running) =>
        /\ tailPending' = tailPending - 1
        /\ UNCHANGED <<tail_pos, text_logs, logs_inserted, running, live_paths>>

C13_RunningTick ==
    Tick => /\ tailPending' = tailPending
            /\ \A f \in Tailed : tail_pos'[f] = Len(files[f])

C13_OnlyStopStops == (running /\ ~running') => stop_live_logs

C13_QuietWhenStopped ==
    (~running /\ ~start_live_logs) =>
        /\ UNCHANGED <<tail_pos, logs_inserted>>
        /\ tailPending' <= tailPending
        /\ text_logs' \in {text_logs, <<>>}

C13_CooperativeStop ==
    [][C13_StoppedTick /\ C13_RunningTick /\ C13_OnlyStopStops
          /\ C13_QuietWhenStopped]_vars

\* Tailing was stopped after one byte was shown, the pending tick has fired
\* (none is left), and the byte appended since is not shown.
C13_Witness ==
    /\ ~running
    /\ tailPending = 0
    /\ files["organizer.log"] = <<Byte(1), Byte(2)>>
    /\ tail_pos = [f \in {"organizer.log"} |-> 1]
    /\ text_logs = Part("organizer.log", <<Byte(1)>>)

\* ---------------------------------------------------------------- C14
\* The log files present now, and what a read of each from offset zero shows.
Found == {f \in LogNames : files[f] # NoFile}
WholeContent ==
    LET fs == SelectSeq(LogOrder, LAMBDA f : files[f] # NoFile /\ files[f] # <<>>)
    IN  Join([k \in 1..Len(fs) |-> Part(fs[k], files[fs[k]])])

\* C14: a Start Live Logs with a directory and at least one log file, whether
\* tailing was running or not, sets the running flag, makes the table hold
\* exactly the files found, and its first read starts every file at offset
\* zero in an emptied view: afterwards the view is the whole content of each
\* file and each offset is the file's length.  A Start with no directory or
\* no log file changes neither the flag, the table, the view nor the timers.
C14_StartStep ==
    start_live_logs =>
        IF Strip(log_dir) # <<>> /\ Found # {}
        THEN /\ running'
             /\ Tailed' = Found
             /\ DOMAIN tail_pos' = Found
             /\ \A f \in Found : tail_pos'[f] = Len(files[f])
             /\ text_logs' = WholeContent
             /\ tailPending' = tailPending + 1
        ELSE UNCHANGED <<running, live_paths, tail_pos, text_logs, tailPending>>

C14_StartResets == [][C14_StartStep]_vars

\* Start was pressed again while tailing was running (two ticks are pending):
\* the view holds the whole of organizer.log in one part.
C14_Witness ==
    /\ running
    /\ tailPending = 2
    /\ files = [f \in LogNames |-> IF f = "organizer.log" THEN <<Byte(1), Byte(2)>> ELSE <<>>]
    /\ tail_pos = [f \in LogNames |-> IF f = "organizer.log" THEN 2 ELSE 0]
    /\ text_logs = Part("organizer.log", <<Byte(1), Byte(2)>>)

\* ---------------------------------------------------------------- C15
\* The name ends in the archive extension .zip (in any letter case).
IsZipName(n) ==
    Len(n) >= 4 /\ \A k \in 1..4 : LowerChar(n[Len(n) - 4 + k]) = DotZip[k]

\* The names in the backups subdirectory of the directory now in the entry.
BackupEntries ==
    LET d == Strip(back_dir)
    IN  IF d \in BackRoots /\ backups[d].isdir THEN backups[d].names ELSE {}

\* A step that refreshes the list: the Refresh button, or a Browse that picks
\* a directory.
Refreshed == refresh_backups \/ \E p \in BackRoots : browse_back_dir(p)

\* C15: after a refresh the list holds exactly the entries of the chosen
\* directory's backups subdirectory whose name ends in .zip, each once, in
\* descending lexicographic order of name, whatever the list held before;
\* with an empty directory text or no backups subdirectory it is empty and no
\* dialog is shown.  {4.zip, 3.zip, n.txt} lists <<4.zip, 3.zip>>.
C15_ListStep ==
    Refreshed =>
        LET list == backups_list'
            entries == BackupEntries'
        IN  /\ {list[k] : k \in 1..Len(list)} = {n \in entries : IsZipName(n)}
            /\ \A i, j \in 1..Len(list) : i < j => StrLess(list[j], list[i])
            /\ entries = {B2023, B2024, Notes} => list = <<B2024, B2023>>
            /\ dialog' = NoDialog

C15_BackupListing == [][C15_ListStep]_vars

\* The list after a refresh of a directory holding all four entries.
C15_Witness ==
    /\ Strip(back_dir) = <<"x">>
    /\ backups[<<"x">>].names = EntryNames
    /\ backups_list = <<BUpper, B2024, B2023>>

\* ---------------------------------------------------------------- C16
\* The handler's archive (its locals d and name) is in the backups directory.
ArchiveThere ==
    /\ rpath.d \in BackRoots
    /\ backups[rpath.d].isdir
    /\ rpath.name \in backups[rpath.d].names

\* While Restore waits in a dialog an entry is selected, the handler holds
\* that entry's name and the directory of the entry field, and in the
\* confirmation a destination has been chosen.
C16_Waiting ==
    /\ rpc \in {"idle", "askdirectory", "askyesno"}
    /\ rpc # "idle" =>
           /\ cursel # 0
           /\ rpath = [d |-> Strip(back_dir), name |-> backups_list[cursel]]
    /\ rpc = "askyesno" => rdest \in DestChoices \ {<<>>}
    /\ rpc = "idle" => rpath = NoPath

\* The guards of Restore, step by step: a press without a selection gives a
\* warning and a press on an archive that is there opens the folder dialog; a
\* cancelled folder dialog and a declined confirmation end the handler; only
\* a confirmed step on an archive that is there writes into the destination,
\* and a failure of that extraction is reported in a "Restore failed" dialog
\* carrying the cause.  Every step leaves the list, the selection, the entry
\* and the backups directory as they were, and every step that does not
\* extract leaves the destination unchanged.
C16_Guards ==
    /\ restore_selected_backup =>
           LET sel == cursel # 0
               exists == sel /\ backups_list[cursel] \in BackupEntries
           IN  /\ dest' = dest
               /\ ~sel => (dialog'.kind = "warning" /\ rpc' = "idle")
               /\ (sel /\ ~exists) => (dialog'.kind = "error" /\ rpc' = "idle")
               /\ exists => rpc' = "askdirectory"
               /\ UNCHANGED <<back_dir, backups_list, cursel, backups>>
    /\ \A c \in DestChoices :
           restore_askdirectory(c) =>
               /\ dest' = dest
               /\ rpc' = (IF c = <<>> THEN "idle" ELSE "askyesno")
               /\ UNCHANGED <<back_dir, backups_list, cursel, backups>>
    /\ \A y \in BOOLEAN, o \in ExtractOutcomes :
           restore_askyesno(y, o) =>
               LET extracts == y /\ ArchiveThere
               IN  /\ ~extracts => dest' = dest
                   /\ ~y => dialog' = NoDialog
                   /\ (y /\ ~ArchiveThere) => dialog'.kind = "error"
                   /\ (extracts /\ o = "ok") =>
                          /\ dest' = Extracted(Strip(back_dir), backups_list[cursel], "all")
                          /\ dialog'.kind = "info"
                   /\ (extracts /\ o # "ok") =>
                          /\ dialog'.kind = "error" /\ dialog'.title = "Restore failed"
                          /\ Contains(dialog'.msg, <<"Exception">>)
                   /\ rpc' = "idle"
                   /\ UNCHANGED <<back_dir, backups_list, cursel, backups>>
    /\ dest' # dest =>
           /\ rpc = "askyesno" /\ ArchiveThere
           /\ \E o \in ExtractOutcomes : restore_askyesno(TRUE, o)
    /\ rpc # "idle" => UNCHANGED <<back_dir, backups_list, cursel>>

\* A selected archive that is not there when Restore is pressed is reported
\* in the "Not found" dialog, which shows its path.
C16_NotFoundAtPress ==
    (restore_selected_backup /\ cursel # 0
        /\ backups_list[cursel] \notin BackupEntries) =>
            /\ dialog'.title = "Not found"
            /\ dialog'.msg = BackupPath(Strip(back_dir), backups_list[cursel])

\* An archive that was there at the press and is gone when the confirmed
\* extraction starts is reported in the "Restore failed" dialog, with the
\* cause (no such file) and its path.
C16_GoneInDialog ==
    \A o \in ExtractOutcomes :
        (restore_askyesno(TRUE, o) /\ ~ArchiveThere) =>
            /\ dialog'.title = "Restore failed"
            /\ Contains(dialog'.msg, NoSuchFile(Strip(back_dir), backups_list[cursel]))

\* The same case as the claim words it: the "Not found" failure also when
\* the archive is gone at the start of the confirmed extraction.
C16_NotFoundAtExtraction ==
    \A o \in ExtractOutcomes :
        (restore_askyesno(TRUE, o) /\ ~ArchiveThere) => dialog'.title = "Not found"

\* C16 as amended: Restore extracts only when an entry is selected, the
\* archive of that name is in the backups subdirectory of the directory in
\* the entry both when Restore is pressed and when the extraction starts, a
\* destination is chosen and the user confirms.  A selected archive that is
\* not there when Restore is pressed gives the "Not found" failure; one that
\* goes while the folder dialog or the confirmation is open gives a "Restore
\* failed" failure with the cause; in every case without extraction the
\* destination is unchanged; a failed extraction is reported with its cause
\* and the handler returns with the list, the selection and the entry as
\* they were.
C16_RestoreGuarded ==
    []C16_Waiting /\ [][C16_Guards /\ C16_NotFoundAtPress /\ C16_GoneInDialog]_vars

\* C16 as the claim states it: whenever Restore finds the selected archive
\* gone, at the press or at the start of the confirmed extraction, the
\* failure reported is the "Not found" one.
C16_NotFoundReported ==
    [][C16_Guards /\ C16_NotFoundAtPress /\ C16_NotFoundAtExtraction]_vars

\* 4.zip has been restored from y/backups and then deleted; a second Restore
\* of the same entry, started before the deletion and confirmed after it, has
\* been reported as failed with the destination as the first one left it.
C16_Witness ==
    /\ backups_list = <<BUpper, B2024, B2023>>
    /\ cursel = 2
    /\ Strip(back_dir) = <<"y">>
    /\ dest = Extracted(<<"y">>, B2024, "all")
    /\ B2024 \notin backups[<<"y">>].names
    /\ dialog.title = "Restore failed"
    /\ Contains(dialog.msg, NoSuchFile(<<"y">>, B2024))

\* ---------------------------------------------------------------- C17
Other(p) == IF p = "org" THEN "ver" ELSE "org"

\* The chunks the process of pipeline p can have produced.
OwnChunks(p) == {Line(p, k) : k \in 1..MaxLines} \cup {DiagNotFound(p), DiagFailed}

\* Nothing in a sequence of tokens names the other pipeline or its script.
OwnText(p, toks) ==
    \A k \in 1..Len(toks) : toks[k] \notin {Other(p), ScriptName(Other(p))}

\* C17: with an organizer run and a verify run in flight at the same time,
\* each pipeline relays through its own queue to its own display: what is
\* queued for and shown on a display are chunks of that pipeline's process
\* only, in the order produced, none lost or repeated; the callback of a
\* pipeline runs at most once, after all its chunks are shown, with the exit
\* code of its own process; and the order guarantees of C2 hold in every
\* interleaving.
C17_IndependentPipelines ==
    /\ C2_Safety
    /\ \A p \in P :
          /\ \A k \in 1..Len(Chunks(enq[p])) : Chunks(enq[p])[k] \in OwnChunks(p)
          /\ \A k \in 1..Len(q[p]) : q[p][k].tag = "str" => q[p][k].str \in OwnChunks(p)
          /\ inserted[p] \o Flatten(Chunks(q[p])) = Flatten(Chunks(enq[p]))
          /\ IsSuffix(text[p], inserted[p])
          /\ OwnText(p, text[p]) /\ OwnText(p, inserted[p])
          /\ cbCount[p] <= 1
          /\ cbCount[p] = 1 =>
                 /\ cbArg[p] = rc[p]
                 /\ wpc[p] = "done"
                 /\ q[p] = <<>>
                 /\ inserted[p] = Flatten(Chunks(enq[p]))

\* Both processes are streaming at once, each with its first line shown on
\* its own display.
C17_Witness ==
    /\ wpc["org"] = "stream" /\ wpc["ver"] = "stream"
    /\ text["org"] = Line("org", 1)
    /\ text["ver"] = Line("ver", 1)

\* ---------------------------------------------------------------- C18
\* The drain ticks of pipeline p that are pending or running.
DrainTicks(p) == pollPending[p] + (IF uiBusy = p THEN 1 ELSE 0)

\* The drain loop of p has been set up and its callback has not run.
Draining(p) == bgpc[p] = "idle" /\ wpc[p] # "idle" /\ cbCount[p] = 0

\* A step of the poll function of p.
PollRuns(p) == PollTick(p) \/ PollLoop(p)

\* C18: the drain loop of an invocation has at most one tick pending or
\* running; while the invocation is not complete it has exactly one: a tick
\* that finds the queue empty schedules one next tick and ends; the tick that
\* takes the Completion Signal runs the callback and schedules none, and once
\* the callback has run no tick is pending and poll never runs again for
\* that invocation.
C18_Ticks ==
    \A p \in P :
        /\ DrainTicks(p) <= 1
        /\ Draining(p) => DrainTicks(p) = 1
        /\ cbCount[p] = 1 => DrainTicks(p) = 0

C18_PollStep ==
    \A p \in P :
        PollRuns(p) =>
            /\ cbCount[p] = 0
            /\ q[p] = <<>> => (pollPending'[p] = 1 /\ uiBusy' = "none")
            /\ (q[p] # <<>> /\ Head(q[p]).tag = "__RC__") =>
                   /\ cbCount'[p] = 1
                   /\ pollPending'[p] = 0
                   /\ uiBusy' = "none"

C18_OneDrainTick == []C18_Ticks /\ [][C18_PollStep]_vars

\* The organizer run is complete: both lines are shown, the callback has run,
\* and no drain tick is pending.
C18_Witness ==
    /\ nread["org"] = MaxLines
    /\ text["org"] = Flatten(Written("org"))
    /\ cbCount["org"] = 1
    /\ pollPending["org"] = 0
    /\ uiBusy = "none"
    /\ btn["org"] = "normal"

\* ---------------------------------------------------------------- C19
\* What has been shown for file f since the last start.
ShownOf(f) == DataOf(f, logs_inserted, "")

\* C19: the tailer does not detect truncation.  A tick only adds to what has
\* been shown, and a tailed file whose length is not above its recorded
\* offset, because it was truncated or replaced, keeps its offset, which may
\* exceed the length; a longer file has its offset moved to its length.  In
\* every state the offset of a file is the number of bytes shown for it and
\* the k-th byte shown is a byte that was at position k when read: so nothing
\* is shown for a file while its offset stays, and a byte written below the
\* recorded offset (the first byte of a replacement file, read at an offset
\* above zero) is never shown.
C19_TruncatedTick ==
    Tick =>
        /\ Len(logs_inserted) <= Len(logs_inserted')
        /\ SubSeq(logs_inserted', 1, Len(logs_inserted)) = logs_inserted
        /\ \A f \in Tailed :
              files[f] # NoFile =>
                  tail_pos'[f] = (IF Len(files[f]) <= tail_pos[f]
                                  THEN tail_pos[f] ELSE Len(files[f]))

C19_ShownAbove ==
    \A f \in Tailed :
        LET shown == ShownOf(f)
        IN  /\ Len(shown) = tail_pos[f]
            /\ \A k \in 1..Len(shown) :
                  shown[k] = Byte(k) \/ (k = 1 /\ shown[k] = Replacement[1])

C19_TruncationUndetected == []C19_ShownAbove /\ [][C19_TruncatedTick]_vars

\* organizer.log was shown up to offset 2, then truncated and rewritten up to
\* length 1: ticks since have shown integrity_check.log only, and the offset
\* of organizer.log is still 2.
C19_Witness ==
    /\ running
    /\ files["organizer.log"] = <<Byte(1)>>
    /\ files["integrity_check.log"] = <<Byte(1), Byte(2)>>
    /\ tail_pos = [f \in LogNames |-> 2]
    /\ text_logs = Part("organizer.log", <<Byte(1), Byte(2)>>)
                       \o Part("integrity_check.log", <<Byte(1)>>)
                       \o Part("integrity_check.log", <<Byte(2)>>)

\* ---------------------------------------------------------------- C20
\* An invocation of pipeline p is in flight: its run handler has passed
\* validation and its completion callback has not run.
InFlight(p) == bgpc[p] = "started" \/ (wpc[p] # "idle" /\ cbCount[p] = 0)

\* A run handler of p passes validation and starts an invocation.
Starts(p) == bgpc[p] # "started" /\ bgpc'[p] = "started"

\* C20: at most one invocation per pipeline is in flight.  The Run button of
\* a pipeline is disabled exactly while an invocation of that pipeline is in
\* flight, and an invocation starts only with the button enabled and none in
\* flight, so no second run of a pipeline starts while one is streaming; the
\* two pipelines are not tied to each other and may be in flight together.
C20_Disabled == \A p \in P : btn[p] = "disabled" <=> InFlight(p)

C20_StartStep ==
    \A p \in P :
        Starts(p) =>
            /\ btn[p] = "normal" /\ ~InFlight(p)
            /\ btn'[p] = "disabled"
            /\ btn'[Other(p)] = btn[Other(p)]

C20_OneInFlight == []C20_Disabled /\ [][C20_StartStep]_vars

\* An organizer run that is streaming and a verify run that has exited and is
\* about to enqueue its completion item: both Run buttons are disabled.
C20_Witness ==
    /\ wpc["org"] = "stream" /\ nread["org"] = 1
    /\ wpc["ver"] = "rc"
    /\ btn = [p \in P |-> "disabled"]

\* ---------------------------------------------------------------- C21
\* C21: after any sequence of Start Live Logs and Stop Live Logs interleaved
\* with tail ticks (Start while already running, and Stop followed by Start
\* before the pending tick fires, included), at most one tail tick is
\* pending, so each tailed file is read at most once per poll interval.
C21_OneTailTick == tailPending <= 1

====
